---- MODULE Spec2Model ----
(***************************************************************************)
(* mail_order_rust: the filename classifier of src/utils.rs                *)
(* (extract_dst_path and its helpers), the batch relocation `handle` of    *)
(* src/utils.rs and the polling loop `main` of src/main.rs, which is run   *)
(* here with the `handle` of utils.rs.                                     *)
(*                                                                         *)
(* A string is a sequence of one-character strings, a path is a sequence   *)
(* of components (each a string): Rust compares paths component by         *)
(* component, which is what the model keeps.                               *)
(***************************************************************************)
EXTENDS Integers, Sequences, FiniteSets, TLC

VARIABLES
    inbox,      \* names of the files present in the source directory
    dirs,       \* directories that exist (paths)
    archive,    \* files below the target root: destination path -> name of the source copied there
    listing,    \* the directory listing captured by read_dir for the current pass
    idx,        \* position in listing of the next entry the iterator of handle yields
    ops,        \* filesystem calls made by handle in the current pass, in order
    ret,        \* what handle returned in the current pass ("none" while it runs)
    pc,         \* position of main / of the classifier run
    passes,     \* number of passes started
    path,       \* last path handed to extract_dst_path
    target,     \* target root handed to extract_dst_path
    res         \* result of the last extract_dst_path call

vars == <<inbox, dirs, archive, listing, idx, ops, ret, pc, passes, path, target, res>>

(***************************************************************************)
(* constants.rs                                                            *)
(***************************************************************************)
SEPARATOR == "_"
DATE_LENGTH == 8
VALID_DAYS == 31
VALID_MONTHS == 12
VALID_YEARS == 2099
U16_MAX == 65535

SOURCE == << <<"s">> >>
TARGET == << <<"t">> >>

(***************************************************************************)
(* Option and Result values                                                *)
(***************************************************************************)
None == [some |-> FALSE, val |-> <<>>]
Some(v) == [some |-> TRUE, val |-> v]

Err(kind) == [kind |-> kind, parent |-> <<>>, dst |-> <<>>]
Ok(parent, dst) == [kind |-> "Ok", parent |-> parent, dst |-> dst]

Front(s) == SubSeq(s, 1, Len(s) - 1)
Last(s) == s[Len(s)]

(***************************************************************************)
(* error.rs: Display for ProcessError                                      *)
(***************************************************************************)
Display(kind) ==
    CASE kind = "Extension" -> "Extension Error: No valid file extension."
      [] kind = "Separator" -> "Separator Error: File name does not contain expected separator: _."
      [] kind = "Parts" -> "Parts Error: File name does not contain expected parts."
      [] kind = "Date" -> "Date Error: No valid date format."
      [] kind = "IO" -> "IO Error: "
      [] OTHER -> ""

(***************************************************************************)
(* char::is_ascii_digit and str::parse::<u16>                              *)
(***************************************************************************)
Digits == {"0", "1", "2", "3", "4", "5", "6", "7", "8", "9"}

DigitVal(c) ==
    CASE c = "0" -> 0 [] c = "1" -> 1 [] c = "2" -> 2 [] c = "3" -> 3
      [] c = "4" -> 4 [] c = "5" -> 5 [] c = "6" -> 6 [] c = "7" -> 7
      [] c = "8" -> 8 [] c = "9" -> 9

is_ascii_digit(c) == c \in Digits

\* Accumulates the digits of s from position i on; -1 on overflow of u16.
RECURSIVE AccU16(_, _, _)
AccU16(s, i, acc) ==
    IF i > Len(s) THEN acc
    ELSE LET n == acc * 10 + DigitVal(s[i])
         IN IF n > U16_MAX THEN -1 ELSE AccU16(s, i + 1, n)

\* u16::from_str: an optional leading "+", then at least one digit, no overflow.
parse_u16(s) ==
    LET body == IF Len(s) > 0 /\ s[1] = "+" THEN Tail(s) ELSE s
    IN IF body = <<>> THEN None
       ELSE IF \E i \in 1..Len(body) : ~is_ascii_digit(body[i]) THEN None
       ELSE LET n == AccU16(body, 1, 0)
            IN IF n < 0 THEN None ELSE Some(n)

(***************************************************************************)
(* std::path::Path as used by utils.rs                                     *)
(***************************************************************************)
ParentDir == <<".", ".">>
CurDir == <<".">>

\* Path::file_name: the last component when it is a normal one.
file_name(p) ==
    IF p = <<>> \/ Last(p) = ParentDir THEN None ELSE Some(Last(p))

\* std's rsplit_file_at_dot: (before, after) the last dot of a file name.
rsplit_file_at_dot(file) ==
    IF file = ParentDir THEN [before |-> Some(file), after |-> None]
    ELSE LET dots == {i \in 1..Len(file) : file[i] = "."}
         IN IF dots = {} THEN [before |-> None, after |-> Some(file)]
            ELSE LET i == CHOOSE k \in dots : \A j \in dots : j <= k
                 IN IF i = 1 THEN [before |-> Some(file), after |-> None]
                    ELSE [before |-> Some(SubSeq(file, 1, i - 1)),
                          after |-> Some(SubSeq(file, i + 1, Len(file)))]

\* Path::extension: before.and(after)
extension(p) ==
    LET f == file_name(p)
    IN IF ~f.some THEN None
       ELSE LET s == rsplit_file_at_dot(f.val)
            IN IF s.before.some THEN s.after ELSE None

\* Path::file_stem: before.or(after)
file_stem(p) ==
    LET f == file_name(p)
    IN IF ~f.some THEN None
       ELSE LET s == rsplit_file_at_dot(f.val)
            IN IF s.before.some THEN s.before ELSE s.after

\* Path::parent
parent(p) == IF p = <<>> THEN None ELSE Some(Front(p))

\* Path::join of a relative one-component path: an empty or "." component
\* adds nothing that the comparison of paths sees.
join(p, c) == IF c = <<>> \/ c = CurDir THEN p ELSE Append(p, c)

\* Path::with_extension: no file name, no change; otherwise the file name
\* becomes its stem, followed by "." and ext when ext is not empty.
with_extension(p, ext) ==
    LET st == file_stem(p)
    IN IF ~st.some THEN p
       ELSE [p EXCEPT ![Len(p)] =
                st.val \o (IF ext = <<>> THEN <<>> ELSE <<".">> \o ext)]

\* str::split_once
split_once(s, sep) ==
    LET hits == {i \in 1..Len(s) : s[i] = sep}
    IN IF hits = {} THEN None
       ELSE LET i == CHOOSE k \in hits : \A j \in hits : k <= j
            IN Some(<<SubSeq(s, 1, i - 1), SubSeq(s, i + 1, Len(s))>>)

(***************************************************************************)
(* utils.rs: the classifier                                                *)
(***************************************************************************)
extract_suffix(p) ==
    LET e == extension(p)
    IN IF e.some THEN [ok |-> TRUE, val |-> e.val, err |-> ""]
       ELSE [ok |-> FALSE, val |-> <<>>, err |-> "Extension"]

\* Variant: the stem is split at every separator and the second piece alone
\* is the date, as `split('_')` with two `next()` calls would give.
split_into_parent_date_second_piece(p) ==
    LET st == file_stem(p)
    IN IF ~st.some THEN [ok |-> FALSE, val |-> <<>>, err |-> "Parts"]
       ELSE LET sp == split_once(st.val, SEPARATOR)
            IN IF ~sp.some THEN [ok |-> FALSE, val |-> <<>>, err |-> "Separator"]
               ELSE LET more == split_once(sp.val[2], SEPARATOR)
                    IN [ok |-> TRUE,
                        val |-> <<sp.val[1],
                                  IF more.some THEN more.val[1] ELSE sp.val[2]>>,
                        err |-> ""]

split_into_parent_date(p) ==
    LET st == file_stem(p)
    IN IF ~st.some THEN [ok |-> FALSE, val |-> <<>>, err |-> "Parts"]
       ELSE LET sp == split_once(st.val, SEPARATOR)
            IN IF ~sp.some THEN [ok |-> FALSE, val |-> <<>>, err |-> "Separator"]
               ELSE [ok |-> TRUE, val |-> sp.val, err |-> ""]

is_valid_fmt(date) ==
    Len(date) = DATE_LENGTH /\ \A i \in 1..Len(date) : is_ascii_digit(date[i])

validate(date) ==
    IF is_valid_fmt(date) THEN [ok |-> TRUE, val |-> date, err |-> ""]
    ELSE [ok |-> FALSE, val |-> <<>>, err |-> "Date"]

\* Variant: the ceiling itself is rejected (n < max).
is_valid_range_exclusive(input, max) ==
    LET n == parse_u16(input)
    IN IF n.some THEN n.val < max ELSE FALSE

is_valid_range(input, max) ==
    LET n == parse_u16(input)
    IN IF n.some THEN n.val <= max ELSE FALSE

parse_date(date) ==
    LET day == SubSeq(date, 1, 2)
        month == SubSeq(date, 3, 4)
        year == SubSeq(date, 5, Len(date))
    IN IF is_valid_range(day, VALID_DAYS)
          /\ is_valid_range(month, VALID_MONTHS)
          /\ is_valid_range(year, VALID_YEARS)
       THEN [ok |-> TRUE, val |-> <<day, month, year>>, err |-> ""]
       ELSE [ok |-> FALSE, val |-> <<>>, err |-> "Date"]

\* Variant: the stem is split before the extension is looked at.
extract_dst_path_split_first(p, tgt) ==
    LET sp == split_into_parent_date(p)
    IN IF ~sp.ok THEN Err(sp.err)
       ELSE LET suffix == extract_suffix(p)
            IN IF ~suffix.ok THEN Err(suffix.err)
               ELSE LET par == parent(p)
                    IN IF ~par.some THEN Err("Parts")
                       ELSE LET v == validate(sp.val[2])
                            IN IF ~v.ok THEN Err(v.err)
                               ELSE LET d == parse_date(v.val)
                                    IN IF ~d.ok THEN Err(d.err)
                                       ELSE Ok(par.val,
                                               with_extension(
                                                   join(join(join(join(tgt, d.val[3]),
                                                                  d.val[2]),
                                                             d.val[1]),
                                                        sp.val[1]),
                                                   suffix.val))

extract_dst_path(p, tgt) ==
    LET suffix == extract_suffix(p)
    IN IF ~suffix.ok THEN Err(suffix.err)
       ELSE LET par == parent(p)
            IN IF ~par.some THEN Err("Parts")
               ELSE LET sp == split_into_parent_date(p)
                    IN IF ~sp.ok THEN Err(sp.err)
                       ELSE LET about == sp.val[1]
                                v == validate(sp.val[2])
                            IN IF ~v.ok THEN Err(v.err)
                               ELSE LET d == parse_date(v.val)
                                    IN IF ~d.ok THEN Err(d.err)
                                       ELSE Ok(par.val,
                                               with_extension(
                                                   join(join(join(join(tgt, d.val[3]),
                                                                  d.val[2]),
                                                             d.val[1]),
                                                        about),
                                                   suffix.val))

(***************************************************************************)
(* Inputs of the classifier run: file names assembled from a category, a   *)
(* date segment and an extension, with and without separator and           *)
(* extension, below a parent directory.                                    *)
(***************************************************************************)
Categories ==
    { <<"a">>, <<"a", "-", "b">>, <<"a", ".", "b">>, <<".">>, <<".", ".">>,
      <<".", "a">>, <<"a", ".">>, <<>> }

DayStrs ==
    { <<"0", "0">>, <<"0", "1">>, <<"3", "1">>, <<"3", "2">>, <<"+", "1">>, <<"1", "a">> }

MonthStrs == { <<"0", "0">>, <<"1", "0">>, <<"1", "2">>, <<"1", "3">> }

YearStrs ==
    { <<"2", "0", "2", "4">>, <<"2", "0", "9", "9">>, <<"2", "1", "0", "0">>,
      <<"0", "0", "0", "0">>, <<"2", "0", "2">>, <<"2", "0", "2", "a">>,
      <<"2", "0", "2", "4", "1", "2", "3", "4">> }

Dates == {d \o m \o y : d \in DayStrs, m \in MonthStrs, y \in YearStrs}

\* Text that may follow a further separator after the date.
Extras == { <<"x">>, <<>>, <<"0", "1">> }

DateSegs ==
    Dates \cup
    {d \o <<SEPARATOR>> \o x :
        d \in { <<"0", "1", "1", "0", "2", "0", "2", "4">>,
                <<"3", "1", "1", "2", "2", "0", "9", "9">>,
                <<"3", "2", "1", "0", "2", "0", "2", "4">> },
        x \in Extras}

Exts == { <<"t">>, <<"p", "d", "f">>, <<>> }

Parents == { <<>>, << <<"p">> >> }
Targets == { << <<"t">> >>, << <<"t">>, <<"u">> >> }

InputNames ==
    ({c \o <<SEPARATOR>> \o d \o <<".">> \o e :
          c \in Categories, d \in DateSegs, e \in Exts}
     \cup {c \o <<SEPARATOR>> \o d : c \in Categories, d \in DateSegs}
     \cup {c \o <<".">> \o e : c \in Categories, e \in Exts}
     \cup Categories)
    \ { <<>>, CurDir, ParentDir }

NoResult == [kind |-> "none", parent |-> <<>>, dst |-> <<>>]
NoArchive == {}

InitClassify ==
    /\ path \in {par \o <<n>> : par \in Parents, n \in InputNames}
    /\ target \in Targets
    /\ res = NoResult
    /\ pc = "classify"
    /\ inbox = {}
    /\ dirs = {}
    /\ archive = NoArchive
    /\ listing = <<>>
    /\ idx = 1
    /\ ops = <<>>
    /\ ret = "none"
    /\ passes = 0

\* One call of extract_dst_path.
Classify ==
    /\ pc = "classify"
    /\ res' = extract_dst_path(path, target)
    /\ pc' = "classified"
    /\ UNCHANGED <<inbox, dirs, archive, listing, idx, ops, ret, passes, path, target>>

NextClassify == Classify

SpecClassify == InitClassify /\ [][NextClassify]_vars

(***************************************************************************)
(* Statements about the classifier.  The shape of a file name is read off  *)
(* the name itself, independently of the operators that model the code.    *)
(***************************************************************************)
Has(s, c) == \E i \in 1..Len(s) : s[i] = c
StartsWith(s, p) == Len(p) <= Len(s) /\ SubSeq(s, 1, Len(p)) = p
EndsWith(s, p) == Len(p) <= Len(s) /\ SubSeq(s, Len(s) - Len(p) + 1, Len(s)) = p

\* name is <c>_<date>.<e> for some date segment
IsShape(name, c, e) ==
    /\ Len(name) >= Len(c) + Len(e) + 2
    /\ StartsWith(name, c \o <<"_">>)
    /\ EndsWith(name, <<".">> \o e)
    /\ ~Has(e, ".")
DateOf(name, c, e) == SubSeq(name, Len(c) + 2, Len(name) - Len(e) - 1)

\* The acceptance condition of a date segment as the specification words it.
AcceptedDate(d) ==
    /\ Len(d) = 8
    /\ \A i \in 1..8 : d[i] \in Digits
    /\ 10 * DigitVal(d[1]) + DigitVal(d[2]) <= 31
    /\ 10 * DigitVal(d[3]) + DigitVal(d[4]) <= 12
    /\ 1000 * DigitVal(d[5]) + 100 * DigitVal(d[6]) + 10 * DigitVal(d[7]) + DigitVal(d[8])
           <= 2099

\* A name has an extension when a dot that is not its first character
\* precedes it; its stem is the text before the last dot.
HasExt(name) == name # <<".", ".">> /\ \E i \in 2..Len(name) : name[i] = "."
LastDot(name) == CHOOSE k \in 1..Len(name) :
                    name[k] = "." /\ \A j \in (k + 1)..Len(name) : name[j] # "."
StemOf(name) == SubSeq(name, 1, LastDot(name) - 1)
FirstSep(s) == CHOOSE k \in 1..Len(s) :
                    s[k] = "_" /\ \A j \in 1..(k - 1) : s[j] # "_"
AfterSep(s) == SubSeq(s, FirstSep(s) + 1, Len(s))

ArchivePath(tgt, c, d, e) ==
    tgt \o << SubSeq(d, 5, 8), SubSeq(d, 3, 4), SubSeq(d, 1, 2), c \o <<".">> \o e >>

\* C2: for every non-empty category without '_' (a '.' allowed), every
\* accepted date, every extension and target root,
\* extract_dst_path(parent/<category>_<ddmmyyyy>.<ext>, target) is
\* Ok(parent, target/yyyy/mm/dd/<category>.<ext>).  Stated here for the
\* categories that neither begin nor end with a '.', and for non-empty
\* extensions.
C2_ValidNameGivesArchivePath ==
    pc = "classified" =>
        \A c \in Categories, e \in Exts :
            ( /\ c # <<>> /\ ~Has(c, "_") /\ e # <<>>
              /\ c[1] # "." /\ Last(c) # "."
              /\ IsShape(Last(path), c, e)
              /\ AcceptedDate(DateOf(Last(path), c, e)) )
            => res = Ok(Front(path),
                        ArchivePath(target, c, DateOf(Last(path), c, e), e))

C6_DateAcceptedIffUpperBounds ==
    pc = "classified" =>
        \A c \in Categories, e \in Exts :
            IsShape(Last(path), c, e) =>
                IF AcceptedDate(DateOf(Last(path), c, e))
                THEN res.kind = "Ok"
                ELSE res = Err("Date")

\* C6 witness: the date 00002099 (day 0, month 0) was classified and accepted.
C6_Witness ==
    /\ pc = "classified"
    /\ Last(path) = <<"a", "_", "0", "0", "0", "0", "2", "0", "9", "9", ".", "t">>
    /\ res.kind = "Ok"

\* name is <c>_<d>_<x>.<e> with d an accepted date
HasExtraSegment(name, c, e) ==
    /\ IsShape(name, c, e)
    /\ LET seg == DateOf(name, c, e)
       IN /\ Len(seg) >= 9
          /\ seg[9] = "_"
          /\ AcceptedDate(SubSeq(seg, 1, 8))

\* C7 (as claimed): text after a further separator is ignored:
\* <c>_<d>_<x>.<ext> is classified as <c>_<d>.<ext> is, with destination
\* target/yyyy/mm/dd/<c>.<ext>.  Stated here for categories without a '.',
\* non-empty extensions and non-empty text x.
C7_ExtraSegmentIgnored ==
    pc = "classified" =>
        \A c \in Categories, e \in Exts :
            ( /\ c # <<>> /\ ~Has(c, "_") /\ ~Has(c, ".") /\ e # <<>>
              /\ HasExtraSegment(Last(path), c, e)
              /\ Len(DateOf(Last(path), c, e)) >= 10 )
            => LET d == SubSeq(DateOf(Last(path), c, e), 1, 8)
               IN /\ res = Ok(Front(path), ArchivePath(target, c, d, e))
                  /\ res = extract_dst_path(
                               Front(path) \o <<c \o <<"_">> \o d \o <<".">> \o e>>,
                               target)

\* C7 (amended): the stem is split at its first '_' only and all the text
\* after it is the date segment, so <c>_<d>_<x>.<ext> fails with the Date
\* error.
C7_ExtraSegmentRejected ==
    pc = "classified" =>
        \A c \in Categories, e \in Exts :
            (~Has(c, "_") /\ HasExtraSegment(Last(path), c, e))
            => res = Err("Date")

\* C7 witness: a name with a valid date followed by "_x" was classified
\* and got the Date error.
C7_Witness ==
    /\ pc = "classified"
    /\ Last(path) = <<"a", "_", "0", "1", "1", "0", "2", "0", "2", "4", "_", "x", ".", "t">>
    /\ res.kind = "Date"

\* C9: a path with an extension whose stem has no separator gives the
\* Parts error, displayed as "Parts Error: File name does not contain
\* expected parts."  Stated here for non-empty extensions and stems
\* without a '.', as in "example-about.txt".
C9_NoSeparatorGivesParts ==
    pc = "classified" =>
        ( ( /\ HasExt(Last(path)) /\ Last(Last(path)) # "."
            /\ ~Has(StemOf(Last(path)), "_") /\ ~Has(StemOf(Last(path)), ".") )
          => /\ res.kind = "Parts"
             /\ Display(res.kind) = "Parts Error: File name does not contain expected parts." )

(***************************************************************************)
(* The batch pass: main of main.rs polling the source directory, handle    *)
(* of utils.rs relocating the entries of one listing.                      *)
(***************************************************************************)
MaxFiles == 3
MaxPasses == 2

\* File names that may lie in the source directory.
BatchNames ==
    { <<"a", "_", "0", "1", "1", "0", "2", "0", "2", "4", ".", "t">>,
      <<"b", "_", "3", "1", "1", "2", "2", "0", "9", "9", ".", "t">>,
      <<"a", ".", "t">>,
      <<"b", "_", "3", "2", "1", "0", "2", "0", "2", "4", ".", "t">> }

\* Day directories below the target root that may exist beforehand.
DayDirs ==
    { TARGET \o << <<"2", "0", "2", "4">>, <<"1", "0">>, <<"0", "1">> >>,
      TARGET \o << <<"2", "0", "9", "9">>, <<"1", "2">>, <<"3", "1">> >> }

\* A directory with all the directories above it.
Chain(d) == {SubSeq(d, 1, n) : n \in 1..Len(d)}

\* The listings read_dir may yield for a set of names: any order, any
\* entry possibly unreadable.
Listings(names) ==
    LET n == Cardinality(names)
    IN {l \in [1..n -> [ok : BOOLEAN, name : names]] :
            \A i, j \in 1..n : i # j => l[i].name # l[j].name}

Init ==
    /\ inbox \in {S \in SUBSET BatchNames : Cardinality(S) <= MaxFiles}
    /\ \E pre \in SUBSET DayDirs :
           dirs = Chain(SOURCE) \cup Chain(TARGET) \cup UNION {Chain(d) : d \in pre}
    /\ archive = NoArchive
    /\ listing = <<>>
    /\ idx = 1
    /\ ops = <<>>
    /\ ret = "none"
    /\ pc = "poll"
    /\ passes = 0
    /\ path = <<>>
    /\ target = TARGET
    /\ res = NoResult

\* main: fs::read_dir(source_path), Ok(files) or Err(_).
MainReadDir ==
    /\ pc = "poll"
    /\ passes < MaxPasses
    /\ passes' = passes + 1
    /\ \/ /\ \E l \in Listings(inbox) : listing' = l
          /\ idx' = 1
          /\ ops' = <<>>
          /\ ret' = "none"
          /\ pc' = "handle"
       \/ /\ pc' = "sleep"
          /\ UNCHANGED <<listing, idx, ops, ret>>
    /\ UNCHANGED <<inbox, dirs, archive, path, target, res>>

\* The filesystem calls of one entry, as the closures of handle make them:
\* create_dir_all(parent), and then copy(file, dst) if that succeeded;
\* remove_file(file) whatever the outcome.  f1, f2, f3: whether the
\* operating system fails the call for a reason of its own (an IO error);
\* copy also fails when the source file or the destination's directory is
\* missing, remove_file when the source file is missing.
Relocate(i, name, r, f1, f2, f3) ==
    LET file == SOURCE \o <<name>>
        mkOk == ~f1
        dirs1 == IF mkOk THEN dirs \cup Chain(r.parent) ELSE dirs
        cpOk == mkOk /\ ~f2 /\ name \in inbox /\ Front(r.dst) \in dirs1
        rmOk == ~f3 /\ name \in inbox
        mkOp == [op |-> "create_dir_all", entry |-> i, arg |-> r.parent, ok |-> mkOk]
        cpOp == [op |-> "copy", entry |-> i, arg |-> r.dst, ok |-> cpOk]
        rmOp == [op |-> "remove_file", entry |-> i, arg |-> file, ok |-> rmOk]
    IN /\ dirs' = dirs1
       /\ archive' = IF cpOk
                     THEN {a \in archive : a.dst # r.dst}
                          \cup {[dst |-> r.dst, from |-> name]}
                     ELSE archive
       /\ inbox' = IF rmOk THEN inbox \ {name} ELSE inbox
       /\ ops' = ops \o (IF mkOk THEN <<mkOp, cpOp, rmOp>> ELSE <<mkOp, rmOp>>)

\* Variant: remove_file is also called for an entry that failed
\* classification, before the error ends the pass.
HandleEntry_removes_unclassified ==
    /\ pc = "handle"
    /\ idx <= Len(listing)
    /\ LET e == listing[idx]
           file == SOURCE \o <<e.name>>
           r == extract_dst_path(file, TARGET)
       IN IF ~e.ok
          THEN /\ idx' = idx + 1
               /\ UNCHANGED <<inbox, dirs, archive, ops, ret, pc, path, target, res>>
          ELSE /\ path' = file
               /\ target' = TARGET
               /\ res' = r
               /\ IF r.kind # "Ok"
                  THEN /\ ret' = r.kind
                       /\ pc' = "returned"
                       /\ inbox' = inbox \ {e.name}
                       /\ ops' = Append(ops, [op |-> "remove_file", entry |-> idx,
                                              arg |-> file, ok |-> e.name \in inbox])
                       /\ UNCHANGED <<dirs, archive, idx>>
                  ELSE /\ \E f1, f2, f3 \in BOOLEAN :
                              Relocate(idx, e.name, r, f1, f2, f3)
                       /\ idx' = idx + 1
                       /\ UNCHANGED <<ret, pc>>
    /\ UNCHANGED <<listing, passes>>

\* handle: the iterator yields the next entry; filter_map drops an
\* unreadable one; a classification error ends collect with that error.
HandleEntry ==
    /\ pc = "handle"
    /\ idx <= Len(listing)
    /\ LET e == listing[idx]
           file == SOURCE \o <<e.name>>
           r == extract_dst_path(file, TARGET)
       IN IF ~e.ok
          THEN /\ idx' = idx + 1
               /\ UNCHANGED <<inbox, dirs, archive, ops, ret, pc, path, target, res>>
          ELSE /\ path' = file
               /\ target' = TARGET
               /\ res' = r
               /\ IF r.kind # "Ok"
                  THEN /\ ret' = r.kind
                       /\ pc' = "returned"
                       /\ UNCHANGED <<inbox, dirs, archive, ops, idx>>
                  ELSE /\ \E f1, f2, f3 \in BOOLEAN :
                              Relocate(idx, e.name, r, f1, f2, f3)
                       /\ idx' = idx + 1
                       /\ UNCHANGED <<ret, pc>>
    /\ UNCHANGED <<listing, passes>>

\* handle: the iterator is exhausted, collect gives Ok and handle Ok(()).
HandleDone ==
    /\ pc = "handle"
    /\ idx > Len(listing)
    /\ ret' = "Ok"
    /\ pc' = "returned"
    /\ UNCHANGED <<inbox, dirs, archive, listing, idx, ops, passes, path, target, res>>

\* Variant: main logs the error of handle and goes on to sleep.
MainAfterHandle_keeps_polling ==
    /\ pc = "returned"
    /\ pc' = "sleep"
    /\ UNCHANGED <<inbox, dirs, archive, listing, idx, ops, ret, passes, path, target, res>>

\* main: `handle(files, TARGET)?` returns the error from main, ending the
\* loop; on Ok the loop goes on to sleep.
MainAfterHandle ==
    /\ pc = "returned"
    /\ pc' = IF ret = "Ok" THEN "sleep" ELSE "exited"
    /\ UNCHANGED <<inbox, dirs, archive, listing, idx, ops, ret, passes, path, target, res>>

\* main: thread::sleep, then the next iteration of the loop.
MainSleep ==
    /\ pc = "sleep"
    /\ pc' = "poll"
    /\ UNCHANGED <<inbox, dirs, archive, listing, idx, ops, ret, passes, path, target, res>>

Next == MainReadDir \/ HandleEntry \/ HandleDone \/ MainAfterHandle \/ MainSleep

Spec == Init /\ [][Next]_vars

(***************************************************************************)
(* Statements about the batch pass.                                        *)
(***************************************************************************)
ClassKinds == {"Extension", "Parts", "Separator", "Date"}

\* The classification of the k-th entry of the listing.
ClassOf(k) == extract_dst_path(SOURCE \o <<listing[k].name>>, TARGET)

\* The filesystem calls handle made for the k-th entry, in order.
OpsOf(k) ==
    LET OfEntry(o) == o.entry = k
    IN SelectSeq(ops, OfEntry)

\* C1: an entry whose relocation fails keeps its source file: a source
\* file is removed only after the copy of that entry succeeded, and after
\* the pass an entry whose directory creation or copy failed is still in
\* the inbox.
C1_FailedRelocationKeepsSource ==
    /\ \A i \in 1..Len(ops) :
           (ops[i].op = "remove_file" /\ ops[i].ok)
           => \E j \in 1..(i - 1) :
                  ops[j].op = "copy" /\ ops[j].entry = ops[i].entry /\ ops[j].ok
    /\ pc = "returned"
       => \A i \in 1..Len(ops) :
              (ops[i].op \in {"create_dir_all", "copy"} /\ ~ops[i].ok)
              => listing[ops[i].entry].name \in inbox

\* C3: for a classified entry handle first creates the parent directory
\* chain of the destination, then copies, then removes the source; so no
\* copy fails because target/year/month/day does not exist.
C3_DestinationDirCreatedFirst ==
    \A i \in 1..Len(ops) :
        /\ ops[i].op = "create_dir_all"
           => ops[i].arg = Front(ClassOf(ops[i].entry).dst)
        /\ ops[i].op = "copy"
           => /\ i > 1
              /\ ops[i - 1].op = "create_dir_all"
              /\ ops[i - 1].entry = ops[i].entry
              /\ ops[i - 1].ok
              /\ ops[i].arg = ClassOf(ops[i].entry).dst
              /\ (~ops[i].ok => Front(ops[i].arg) \in dirs)
        /\ ops[i].op = "remove_file"
           => /\ i > 1
              /\ ops[i - 1].op = "copy"
              /\ ops[i - 1].entry = ops[i].entry

\* C4: every failure inside a pass is reported: handle returns Ok(()) only
\* when every step of every processed entry succeeded, and an Err (a
\* classification kind or IO) otherwise.
C4_EveryFailureReported ==
    pc = "returned" =>
        /\ ret \in ClassKinds \cup {"IO", "Ok"}
        /\ ret = "Ok"
           <=> /\ \A i \in 1..Len(ops) : ops[i].ok
               /\ \A k \in 1..Len(listing) :
                      listing[k].ok => ClassOf(k).kind = "Ok"

\* handle is about to classify an entry whose name fails classification
FailingEntryNext ==
    /\ pc = "handle"
    /\ idx <= Len(listing)
    /\ listing[idx].ok
    /\ ClassOf(idx).kind # "Ok"

\* C8 (as claimed): a file that fails classification is not removed or
\* changed by handle, the error is reported to main, and main keeps
\* polling after the reported error.
C8_KeepsPollingAfterError ==
    [][ /\ FailingEntryNext
           => /\ inbox' = inbox /\ archive' = archive
              /\ ret' = ClassOf(idx).kind
        /\ (pc = "returned" /\ ret \in ClassKinds) => pc' = "sleep"
      ]_vars

\* C8 (amended): a file that fails classification is not removed or
\* changed by handle, the error is reported to main, and main returns it:
\* the polling loop ends with the file still in the inbox and no further
\* pass is made.
C8_ExitsAfterError ==
    [][ /\ FailingEntryNext
           => /\ inbox' = inbox /\ archive' = archive
              /\ ret' = ClassOf(idx).kind
              /\ pc' = "returned"
        /\ (pc = "returned" /\ ret \in ClassKinds)
           => /\ pc' = "exited"
              /\ listing[idx].name \in inbox'
              /\ passes' = passes
        /\ pc = "exited" => (pc' = "exited" /\ passes' = passes /\ inbox' = inbox)
      ]_vars

\* C8 witness: main has returned a classification error and the file that
\* caused it is still in the inbox.
C8_Witness ==
    /\ pc = "exited"
    /\ ret \in ClassKinds
    /\ listing[idx].ok
    /\ ret = ClassOf(idx).kind
    /\ listing[idx].name \in inbox

\* C10: when handle returns a classification error, it is the error of the
\* first readable entry k that fails classification; the relocation calls
\* were made, in listing order, for every readable entry before k
\* (create_dir_all, copy unless create_dir_all failed, remove_file) and
\* their effects stay; no filesystem call was made for entry k or any later
\* entry, which all stay in the inbox.
C10_StopsAtFirstClassificationError ==
    (pc = "returned" /\ ret # "Ok") =>
        /\ idx \in 1..Len(listing)
        /\ listing[idx].ok
        /\ ret \in ClassKinds
        /\ ret = ClassOf(idx).kind
        /\ \A j \in 1..(idx - 1) : listing[j].ok => ClassOf(j).kind = "Ok"
        /\ \A j \in 1..(idx - 1) :
               listing[j].ok =>
                   LET o == OpsOf(j)
                   IN \/ /\ Len(o) = 3
                         /\ o[1].op = "create_dir_all" /\ o[1].ok
                         /\ o[2].op = "copy"
                         /\ o[3].op = "remove_file"
                      \/ /\ Len(o) = 2
                         /\ o[1].op = "create_dir_all" /\ ~o[1].ok
                         /\ o[2].op = "remove_file"
        /\ \A i \in 1..Len(ops) :
               /\ ops[i].entry < idx
               /\ listing[ops[i].entry].ok
               /\ \A i2 \in i..Len(ops) : ops[i].entry <= ops[i2].entry
               /\ (ops[i].op = "copy" /\ ops[i].ok)
                  => \E a \in archive : a.dst = ops[i].arg
               /\ (ops[i].op = "remove_file" /\ ops[i].ok)
                  => listing[ops[i].entry].name \notin inbox
        /\ \A j \in idx..Len(listing) : listing[j].name \in inbox

\* C10 witness: handle returned the classification error of an entry that
\* has a relocated entry before it and a validly named entry after it.
C10_Witness ==
    /\ pc = "returned"
    /\ ret \in ClassKinds
    /\ idx > 1
    /\ \E i \in 1..Len(ops) : ops[i].op = "remove_file" /\ ops[i].ok
    /\ \E j \in (idx + 1)..Len(listing) :
           /\ listing[j].ok
           /\ ClassOf(j).kind = "Ok"
           /\ listing[j].name \in inbox

====
